---- MODULE Spec2Model ----
(***************************************************************************)
(* Model of the NeumorphicDropButton toggle control and its click          *)
(* synthesiser (src/components/NeumorphicDropButton.tsx) together with the *)
(* App component that owns isOn (src/App.tsx).                             *)
(*                                                                         *)
(* The source file holds two revisions of the component (lines 1-185 and   *)
(* lines 186-370).  Their handlers and audio life cycle are the same; the  *)
(* tone constants differ and the first revision calls preventDefault on    *)
(* touchend.  The variable "variant" says which revision is running.       *)
(*                                                                         *)
(* Times are integer milliseconds (0.03 s = 30), gains are thousandths     *)
(* (0.7 = 700, 0.001 = 1), frequencies are Hz.                             *)
(***************************************************************************)
EXTENDS Integers, Sequences, FiniteSets, TLC

\* ---------------------------------------------------------------- bounds
MaxEvents == 3      \* events delivered and re-renders forced in one behaviour
MaxCycleEvents == 4 \* events delivered in one behaviour of SpecCycles
MaxTime == 50       \* horizon of the audio clock, in milliseconds
TickMs == 50        \* milliseconds per advance of the audio clock

\* ------------------------------------------------------------- constants
Variants == {1, 2}
NoCtx == 0          \* audioContextRef.current = null
Destination == 0    \* ctx.destination as the target of a connect()
GainUnit == 1000    \* gain 1.0 in thousandths
GainFloor == 1      \* gain 0.001 in thousandths
SnapStopMs == 30    \* snapOsc.stop(t + 0.03)
BodyStopMs == 100   \* bodyOsc.stop(t + 0.1)

DownEvents == {"mousedown", "touchstart"}
UpEvents == {"mouseup", "touchend"}
LeaveEvents == {"mouseleave"}
Events == DownEvents \cup UpEvents \cup LeaveEvents
CtorNames == {"AudioContext", "webkitAudioContext"}
NewContextStates == {"suspended", "running"}

VARIABLES
    variant,          \* revision of the component that is mounted
    isPressed,        \* useState(false) of the component, as last rendered
    isOn,             \* useState(true) of App, as last rendered
    audioContextRef,  \* useRef(null).current: NoCtx or the context's number
    ctxState,         \* AudioContext.state of the context, "none" before it exists
    resumePending,    \* a resume() promise has not settled yet
    currentTime,      \* AudioContext.currentTime in ms
    windowCtors,      \* which of window.AudioContext / webkitAudioContext exist
    constructed,      \* number of `new AudioContext()` evaluations so far
    attempts,         \* number of getAudioContext calls so far
    nextNode,         \* number of audio nodes created so far
    scheduled,        \* the node graphs handed to the audio subsystem, in order
    renders,          \* parent-forced re-renders so far
    nEvents,          \* events delivered so far
    downs,            \* pointer-down / touch-start events delivered so far
    presses,          \* Released -> Pressed transitions so far
    commits,          \* Pressed -> Released transitions made by an up event
    toggles,          \* invocations of onToggle so far
    prev,             \* record of the event before the most recent one
    last              \* record of the most recent event

vars == <<variant, isPressed, isOn, audioContextRef, ctxState, resumePending,
          currentTime, windowCtors, constructed, attempts, nextNode,
          scheduled, renders, nEvents, downs, presses, commits, toggles,
          prev, last>>

\* everything but the audio context's own state and clock
envFrame == <<variant, isPressed, isOn, audioContextRef, constructed, attempts,
              nextNode, scheduled, renders, nEvents, downs, presses, commits,
              toggles, prev, last>>

\* ------------------------------------------------------ tone definitions
\* [f0, f1, fRamp, g0, gRamp] of the snap and body oscillator.
\* the `if (type === 'down')` branch
PressDefinition(v) ==
    IF v = 1
    THEN [snap |-> [f0 |-> 4500, f1 |-> 1200, fRamp |-> 8,  g0 |-> 700, gRamp |-> 12],
          body |-> [f0 |-> 400,  f1 |-> 100,  fRamp |-> 30, g0 |-> 300, gRamp |-> 30]]
    ELSE [snap |-> [f0 |-> 4500, f1 |-> 1200, fRamp |-> 10, g0 |-> 600, gRamp |-> 15],
          body |-> [f0 |-> 400,  f1 |-> 100,  fRamp |-> 40, g0 |-> 200, gRamp |-> 40]]

\* the `else` branch
ReleaseDefinition(v) ==
    IF v = 1
    THEN [snap |-> [f0 |-> 2800, f1 |-> 800,  fRamp |-> 12, g0 |-> 500, gRamp |-> 12],
          body |-> [f0 |-> 300,  f1 |-> 60,   fRamp |-> 50, g0 |-> 400, gRamp |-> 50]]
    ELSE [snap |-> [f0 |-> 2800, f1 |-> 800,  fRamp |-> 15, g0 |-> 400, gRamp |-> 15],
          body |-> [f0 |-> 300,  f1 |-> 60,   fRamp |-> 60, g0 |-> 300, gRamp |-> 60]]

\* variant with the test inverted: `if (type === 'up')`
ToneDefinition_BranchesSwapped(v, type) ==
    IF type = "up" THEN PressDefinition(v) ELSE ReleaseDefinition(v)

ToneDefinition(v, type) ==
    IF type = "down" THEN PressDefinition(v) ELSE ReleaseDefinition(v)

\* An AudioParam automation: setValueAtTime(v0, t) then
\* exponentialRampToValueAtTime(v1, t + ramp).
Automation(v0, t, v1, ramp) ==
    << [call |-> "setValueAtTime", value |-> v0, at |-> t],
       [call |-> "exponentialRampToValueAtTime", value |-> v1, at |-> t + ramp] >>

\* --------------------------------------------------------- the handlers
\* The handlers are functions on a record w ("world") holding what a handler
\* run can read and write; an action builds w from the variables, applies
\* the handler and stores the result.
\*   pressed     isPressed as captured by the handler's closure
\*   nextPressed the value queued by setIsPressed, rendered after the handler
\*   on/nextOn   likewise for App's isOn
\*   fx          the calls made by this handler run, in order
\*   threw       an exception escaped (the rest of the handler is skipped)

\* window.AudioContext || (window as any).webkitAudioContext
AudioContextCtor(w) ==
    IF "AudioContext" \in w.ctors THEN "AudioContext"
    ELSE IF "webkitAudioContext" \in w.ctors THEN "webkitAudioContext"
    ELSE "undefined"

\* variant without the `if (!audioContextRef.current)` test
getAudioContext_AlwaysNew(w, newState) ==
    LET w0 == [w EXCEPT !.attempts = @ + 1]
        w1 == IF AudioContextCtor(w0) # "undefined"
              THEN [w0 EXCEPT !.ref = w0.constructed + 1,
                              !.constructed = @ + 1,
                              !.state = newState,
                              !.fx = Append(@, "new AudioContext")]
              ELSE w0
    IN  IF w1.ref # NoCtx /\ w1.state = "suspended"
        THEN [w1 EXCEPT !.resumePending = TRUE, !.fx = Append(@, "resume")]
        ELSE w1

\* variant that attempts the construction on the first call only
getAudioContext_CachesFailure(w, newState) ==
    LET w0 == [w EXCEPT !.attempts = @ + 1]
        w1 == IF w.attempts = 0 /\ w0.ref = NoCtx /\ AudioContextCtor(w0) # "undefined"
              THEN [w0 EXCEPT !.ref = w0.constructed + 1,
                              !.constructed = @ + 1,
                              !.state = newState,
                              !.fx = Append(@, "new AudioContext")]
              ELSE w0
    IN  IF w1.ref # NoCtx /\ w1.state = "suspended"
        THEN [w1 EXCEPT !.resumePending = TRUE, !.fx = Append(@, "resume")]
        ELSE w1

\* variant with `else if` in place of the second `if`: a context created in
\* this call is not resumed
getAudioContext_ElseIfResume(w, newState) ==
    LET w0 == [w EXCEPT !.attempts = @ + 1]
    IN  IF w0.ref = NoCtx
        THEN IF AudioContextCtor(w0) # "undefined"
             THEN [w0 EXCEPT !.ref = w0.constructed + 1,
                             !.constructed = @ + 1,
                             !.state = newState,
                             !.fx = Append(@, "new AudioContext")]
             ELSE w0
        ELSE IF w0.state = "suspended"
             THEN [w0 EXCEPT !.resumePending = TRUE, !.fx = Append(@, "resume")]
             ELSE w0

getAudioContext(w, newState) ==
    LET w0 == [w EXCEPT !.attempts = @ + 1]
        w1 == IF w0.ref = NoCtx /\ AudioContextCtor(w0) # "undefined"
              THEN [w0 EXCEPT !.ref = w0.constructed + 1,
                              !.constructed = @ + 1,
                              !.state = newState,
                              !.fx = Append(@, "new AudioContext")]
              ELSE w0
    IN  IF w1.ref # NoCtx /\ w1.state = "suspended"
        THEN [w1 EXCEPT !.resumePending = TRUE, !.fx = Append(@, "resume")]
        ELSE w1

\* The gain nodes of one playClickSound run, in the order of their creation,
\* when n nodes exist already; "out" is the node each is connected to.
GainNodes(d, t, n) ==
    << [name |-> "masterGain", id |-> n + 1, out |-> Destination,
        gain |-> << [call |-> "value", value |-> GainUnit, at |-> t] >>],
       [name |-> "snapGain", id |-> n + 3, out |-> n + 1,
        gain |-> Automation(d.snap.g0, t, GainFloor, d.snap.gRamp)],
       [name |-> "bodyGain", id |-> n + 5, out |-> n + 1,
        gain |-> Automation(d.body.g0, t, GainFloor, d.body.gRamp)] >>

\* variant in which the body oscillator is stopped with the snap oscillator
OscillatorNodes_BodyStopsWithSnap(d, t, n) ==
    << [name |-> "snapOsc", id |-> n + 2, wave |-> "triangle", out |-> n + 3,
        frequency |-> Automation(d.snap.f0, t, d.snap.f1, d.snap.fRamp),
        start |-> t, stop |-> t + SnapStopMs],
       [name |-> "bodyOsc", id |-> n + 4, wave |-> "sine", out |-> n + 5,
        frequency |-> Automation(d.body.f0, t, d.body.f1, d.body.fRamp),
        start |-> t, stop |-> t + SnapStopMs] >>

\* The oscillators of one playClickSound run, in the order of their creation.
OscillatorNodes(d, t, n) ==
    << [name |-> "snapOsc", id |-> n + 2, wave |-> "triangle", out |-> n + 3,
        frequency |-> Automation(d.snap.f0, t, d.snap.f1, d.snap.fRamp),
        start |-> t, stop |-> t + SnapStopMs],
       [name |-> "bodyOsc", id |-> n + 4, wave |-> "sine", out |-> n + 5,
        frequency |-> Automation(d.body.f0, t, d.body.f1, d.body.fRamp),
        start |-> t, stop |-> t + BodyStopMs] >>

\* variant with the two stop offsets exchanged
ToneGraph_StopsSwapped(v, type, ctx, state, t, n) ==
    LET d == ToneDefinition(v, type)
    IN  [ type |-> type, ctx |-> ctx, ctxState |-> state, t |-> t,
          gains |-> GainNodes(d, t, n),
          oscillators |-> [OscillatorNodes(d, t, n) EXCEPT
                              ![1].stop = t + BodyStopMs,
                              ![2].stop = t + SnapStopMs] ]

\* The node graph built by one run of playClickSound on a context whose
\* clock reads t.
ToneGraph(v, type, ctx, state, t, n) ==
    LET d == ToneDefinition(v, type)
    IN  [ type |-> type, ctx |-> ctx, ctxState |-> state, t |-> t,
          gains |-> GainNodes(d, t, n),
          oscillators |-> OscillatorNodes(d, t, n) ]

\* variant without the `if (!ctx) return` guard: reading ctx.currentTime of
\* null raises a TypeError
playClickSound_NoNullCheck(w, type, newState) ==
    LET w0 == [w EXCEPT !.fx = Append(@, "playClickSound:" \o type)]
        w1 == getAudioContext(w0, newState)
    IN  IF w1.ref = NoCtx
        THEN [w1 EXCEPT !.threw = TRUE]
        ELSE [w1 EXCEPT
                !.scheduled = Append(@, ToneGraph(w1.variant, type, w1.ref,
                                                  w1.state, w1.time, w1.nextNode)),
                !.nextNode = @ + 5,
                !.fx = Append(@, "schedule:" \o type)]

\* variant that silences what is still sounding before it schedules
playClickSound_StopsPrevious(w, type, newState) ==
    LET w0 == [w EXCEPT !.fx = Append(@, "playClickSound:" \o type)]
        w1 == getAudioContext(w0, newState)
        cut == [i \in 1..Len(w1.scheduled) |->
                  [w1.scheduled[i] EXCEPT
                      !.oscillators[1].stop = w1.time,
                      !.oscillators[2].stop = w1.time]]
    IN  IF w1.ref = NoCtx
        THEN w1
        ELSE [w1 EXCEPT
                !.scheduled = Append(cut, ToneGraph(w1.variant, type, w1.ref,
                                                    w1.state, w1.time, w1.nextNode)),
                !.nextNode = @ + 5,
                !.fx = Append(@, "schedule:" \o type)]

playClickSound(w, type, newState) ==
    LET w0 == [w EXCEPT !.fx = Append(@, "playClickSound:" \o type)]
        w1 == getAudioContext(w0, newState)
    IN  IF w1.ref = NoCtx
        THEN w1
        ELSE [w1 EXCEPT
                !.scheduled = Append(@, ToneGraph(w1.variant, type, w1.ref,
                                                  w1.state, w1.time, w1.nextNode)),
                !.nextNode = @ + 5,
                !.fx = Append(@, "schedule:" \o type)]

\* variant that switches off whatever the state: setIsOn(false)
toggleSwitch_SetsFalse(w) ==
    [w EXCEPT !.nextOn = FALSE]

\* App.toggleSwitch: setIsOn(!isOn)
toggleSwitch(w) ==
    [w EXCEPT !.nextOn = ~w.on]

\* the onToggle prop, bound to toggleSwitch by App
onToggle(w) ==
    toggleSwitch([w EXCEPT !.fx = Append(@, "onToggle")])

setIsPressed(w, b) ==
    [w EXCEPT !.nextPressed = b,
              !.fx = Append(@, IF b THEN "setIsPressed:true" ELSE "setIsPressed:false")]

\* variant that plays the press sound only while the switch is on
handlePressStart_SilentWhenOff(w, newState) ==
    LET w1 == setIsPressed(w, TRUE)
    IN  IF w.on THEN playClickSound(w1, "down", newState) ELSE w1

handlePressStart(w, newState) ==
    LET w1 == setIsPressed(w, TRUE)
        w2 == playClickSound(w1, "down", newState)
    IN  w2

\* variant that invokes the callback before the sound
handlePressEnd_ToggleFirst(w, ev, newState) ==
    LET w0 == IF w.variant = 1 /\ ev = "touchend"
              THEN [w EXCEPT !.fx = Append(@, "preventDefault")]
              ELSE w
    IN  IF w0.pressed
        THEN LET w1 == setIsPressed(w0, FALSE)
                 w2 == onToggle(w1)
             IN  playClickSound(w2, "up", newState)
        ELSE w0

\* variant with the sound outside the `if (isPressed)` guard
handlePressEnd_SoundOutsideGuard(w, ev, newState) ==
    LET w0 == IF w.variant = 1 /\ ev = "touchend"
              THEN [w EXCEPT !.fx = Append(@, "preventDefault")]
              ELSE w
        w1 == playClickSound(w0, "up", newState)
    IN  IF w1.pressed /\ ~w1.threw
        THEN onToggle(setIsPressed(w1, FALSE))
        ELSE w1

\* variant without the `if (isPressed)` guard
handlePressEnd_NoGuard(w, ev, newState) ==
    LET w0 == IF w.variant = 1 /\ ev = "touchend"
              THEN [w EXCEPT !.fx = Append(@, "preventDefault")]
              ELSE w
        w1 == setIsPressed(w0, FALSE)
        w2 == playClickSound(w1, "up", newState)
    IN  IF w2.threw THEN w2 ELSE onToggle(w2)

handlePressEnd(w, ev, newState) ==
    LET w0 == IF w.variant = 1 /\ ev = "touchend"
              THEN [w EXCEPT !.fx = Append(@, "preventDefault")]
              ELSE w
    IN  IF w0.pressed
        THEN LET w1 == setIsPressed(w0, FALSE)
                 w2 == playClickSound(w1, "up", newState)
             IN  IF w2.threw THEN w2 ELSE onToggle(w2)
        ELSE w0

\* variant that never resets the state
handleMouseLeave_NoReset(w) ==
    w

handleMouseLeave(w) ==
    IF w.pressed THEN setIsPressed(w, FALSE) ELSE w

\* variant bound to the release handler: onMouseLeave={handlePressEnd}
LeaveHandler_CommitsOnLeave(w, newState) ==
    handlePressEnd(w, "mouseleave", newState)

\* variant that plays the release sound on an aborted press
LeaveHandler_PlaysSound(w, newState) ==
    IF w.pressed
    THEN playClickSound(setIsPressed(w, FALSE), "up", newState)
    ELSE playClickSound(w, "up", newState)

\* onMouseLeave={handleMouseLeave}; the handler makes no audio call, so the
\* state a new context would start in is not used
LeaveHandler(w, newState) ==
    handleMouseLeave(w)

\* the event bindings of the <button>
Dispatch(w, ev, newState) ==
    IF ev \in DownEvents THEN handlePressStart(w, newState)
    ELSE IF ev \in UpEvents THEN handlePressEnd(w, ev, newState)
    ELSE LeaveHandler(w, newState)

\* ----------------------------------------------------------- the actions
World ==
    [ variant |-> variant, pressed |-> isPressed, nextPressed |-> isPressed,
      on |-> isOn, nextOn |-> isOn, ref |-> audioContextRef, state |-> ctxState,
      resumePending |-> resumePending, time |-> currentTime,
      ctors |-> windowCtors, constructed |-> constructed, attempts |-> attempts,
      nextNode |-> nextNode, scheduled |-> scheduled,
      fx |-> << >>, threw |-> FALSE ]

Has(fx, s) == \E i \in 1..Len(fx) : fx[i] = s
Count(fx, s) == Cardinality({i \in 1..Len(fx) : fx[i] = s})
Pos(fx, s) == CHOOSE i \in 1..Len(fx) : fx[i] = s

\* what is recorded of one delivered event
Entry(ev, w) ==
    [ ev |-> ev, before |-> isPressed, after |-> w.nextPressed,
      refBefore |-> audioContextRef, stateBefore |-> ctxState,
      ctor |-> AudioContextCtor(World) # "undefined",
      refAfter |-> w.ref, stateAfter |-> w.state,
      nodesBefore |-> nextNode, nodesAfter |-> w.nextNode,
      tonesBefore |-> Len(scheduled), tonesAfter |-> Len(w.scheduled),
      threw |-> w.threw, fx |-> w.fx ]

NoEntry ==
    [ ev |-> "none", before |-> FALSE, after |-> FALSE,
      refBefore |-> NoCtx, stateBefore |-> "none", ctor |-> FALSE,
      refAfter |-> NoCtx, stateAfter |-> "none",
      nodesBefore |-> 0, nodesAfter |-> 0, tonesBefore |-> 0, tonesAfter |-> 0,
      threw |-> FALSE, fx |-> << >> ]

Init ==
    /\ variant \in Variants
    /\ isPressed = FALSE
    /\ isOn = TRUE
    /\ audioContextRef = NoCtx
    /\ ctxState = "none"
    /\ resumePending = FALSE
    /\ currentTime = 0
    /\ windowCtors \in SUBSET CtorNames
    /\ constructed = 0
    /\ attempts = 0
    /\ nextNode = 0
    /\ scheduled = << >>
    /\ renders = 0
    /\ nEvents = 0
    /\ downs = 0
    /\ presses = 0
    /\ commits = 0
    /\ toggles = 0
    /\ prev = NoEntry
    /\ last = NoEntry

\* One event is delivered, its handler runs to the end, and React renders the
\* queued state before the next event.
DeliverWithin(ev, newState, max) ==
    /\ nEvents + renders < max
    /\ LET w == Dispatch(World, ev, newState)
       IN  /\ isPressed' = w.nextPressed
           /\ isOn' = w.nextOn
           /\ audioContextRef' = w.ref
           /\ ctxState' = w.state
           /\ resumePending' = w.resumePending
           /\ constructed' = w.constructed
           /\ attempts' = w.attempts
           /\ nextNode' = w.nextNode
           /\ scheduled' = w.scheduled
           /\ nEvents' = nEvents + 1
           /\ downs' = downs + (IF ev \in DownEvents THEN 1 ELSE 0)
           /\ presses' = presses + (IF ~isPressed /\ w.nextPressed THEN 1 ELSE 0)
           /\ commits' = commits + (IF ev \in UpEvents /\ isPressed /\ ~w.nextPressed
                                    THEN 1 ELSE 0)
           /\ toggles' = toggles + Count(w.fx, "onToggle")
           /\ prev' = last
           /\ last' = Entry(ev, w)
    /\ UNCHANGED <<variant, currentTime, windowCtors, renders>>

Deliver(ev, newState) == DeliverWithin(ev, newState, MaxEvents)

PressStart == \E ev \in DownEvents, s \in NewContextStates : Deliver(ev, s)
PressEnd == \E ev \in UpEvents, s \in NewContextStates : Deliver(ev, s)
MouseLeave == \E ev \in LeaveEvents, s \in NewContextStates : Deliver(ev, s)

\* The parent re-renders the component: the function body runs again, the
\* hooks return the stored state and ref.
Rerender ==
    /\ nEvents + renders < MaxEvents
    /\ renders' = renders + 1
    /\ UNCHANGED <<variant, isPressed, isOn, audioContextRef, ctxState,
                   resumePending, currentTime, windowCtors, constructed,
                   attempts, nextNode, scheduled, nEvents, downs, presses,
                   commits, toggles, prev, last>>

\* The platform settles a pending resume().
ResumeCompletes ==
    /\ resumePending
    /\ resumePending' = FALSE
    /\ ctxState' = IF ctxState = "suspended" THEN "running" ELSE ctxState
    /\ UNCHANGED <<envFrame, currentTime, windowCtors>>

\* The platform suspends a running context (page sent to the background).
PlatformSuspends ==
    /\ ctxState = "running"
    /\ ctxState' = "suspended"
    /\ UNCHANGED <<envFrame, resumePending, currentTime, windowCtors>>

\* The audio clock of a running context advances.
Tick ==
    /\ ctxState = "running"
    /\ currentTime + TickMs <= MaxTime
    /\ currentTime' = currentTime + TickMs
    /\ UNCHANGED <<envFrame, ctxState, resumePending, windowCtors>>

\* A script defines an audio constructor on a window that had none.  (Once
\* the context exists the constructors are not read again, line 14.)
PlatformChanges ==
    /\ audioContextRef = NoCtx
    /\ windowCtors = {}
    /\ \E c \in CtorNames : windowCtors' = {c}
    /\ UNCHANGED <<envFrame, ctxState, resumePending, currentTime>>

Next ==
    \/ PressStart
    \/ PressEnd
    \/ MouseLeave
    \/ Rerender
    \/ ResumeCompletes
    \/ PlatformSuspends
    \/ Tick
    \/ PlatformChanges

Spec == Init /\ [][Next]_vars

\* The context is closed from outside the component (other page code calls
\* close() on it, or the browser gives up the audio device for good); a
\* pending resume() is rejected.  The component itself never closes it, so
\* this step is part of SpecClosed only.
ContextCloses ==
    /\ audioContextRef # NoCtx
    /\ ctxState \in {"suspended", "running"}
    /\ ctxState' = "closed"
    /\ resumePending' = FALSE
    /\ UNCHANGED <<envFrame, currentTime, windowCtors>>

ClosedNext ==
    \/ Next
    \/ ContextCloses

SpecClosed == Init /\ [][ClosedNext]_vars

\* The component under events alone, on a platform that stays as it was at
\* mount, for runs long enough to hold two press-release cycles.  What the
\* handlers do to isPressed and isOn does not depend on the audio clock or
\* on the state of the context.
CyclePressStart ==
    \E ev \in DownEvents, s \in NewContextStates :
        DeliverWithin(ev, s, MaxCycleEvents)
CyclePressEnd ==
    \E ev \in UpEvents, s \in NewContextStates :
        DeliverWithin(ev, s, MaxCycleEvents)
CycleMouseLeave ==
    \E ev \in LeaveEvents, s \in NewContextStates :
        DeliverWithin(ev, s, MaxCycleEvents)

CycleNext ==
    \/ CyclePressStart
    \/ CyclePressEnd
    \/ CycleMouseLeave

SpecCycles == Init /\ [][CycleNext]_vars

\* ---------------------------------------------------------------- claims

Schedules(fx) == SelectSeq(fx, LAMBDA x : x \in {"schedule:down", "schedule:up"})
Calls(fx) == SelectSeq(fx, LAMBDA x : x \in {"playClickSound:down", "playClickSound:up"})
\* a context exists, or can be constructed, when the event's handler runs
Available(e) == e.refBefore # NoCtx \/ e.ctor
\* the event made a playClickSound call
Sounded(e) == Len(Calls(e.fx)) > 0
PressThenRelease == prev.ev \in DownEvents /\ last.ev \in UpEvents
PressThenLeave == prev.ev \in DownEvents /\ last.ev \in LeaveEvents

\* C1: isPressed is true exactly when the most recent event was a press
\* (pointer-down / touch-start), i.e. one not yet followed by a pointer-up,
\* touch-end or pointer-leave; before any event it is false.
C1_PressedIffLastEventIsPress ==
    isPressed <=> (last.ev \in DownEvents)

C1_Witness ==
    /\ nEvents >= 3
    /\ prev.ev \in LeaveEvents /\ prev.before
    /\ last.ev \in DownEvents /\ isPressed

\* C2 as stated: a pointer-down followed by a pointer-up invokes onToggle
\* exactly once and schedules exactly two tones, Press by the down and
\* Release by the up, the Release tone before onToggle.
C2_AlwaysTwoTones ==
    PressThenRelease =>
        /\ Count(prev.fx, "onToggle") = 0
        /\ Count(last.fx, "onToggle") = 1
        /\ Schedules(prev.fx) = << "schedule:down" >>
        /\ Schedules(last.fx) = << "schedule:up" >>
        /\ Pos(last.fx, "schedule:up") < Pos(last.fx, "onToggle")

\* C2 amended: a pointer-down followed by a pointer-up invokes onToggle
\* exactly once and makes exactly two playClickSound calls, 'down' by the
\* down and 'up' by the up, the 'up' call and whatever it schedules before
\* onToggle; each call schedules its tone exactly when an audio context
\* exists or can be constructed, so two tones (Press, then Release) are
\* scheduled when that is so at both events.
C2_ToggleOnceTwoCalls ==
    PressThenRelease =>
        /\ Count(prev.fx, "onToggle") = 0
        /\ Count(last.fx, "onToggle") = 1
        /\ Calls(prev.fx) = << "playClickSound:down" >>
        /\ Calls(last.fx) = << "playClickSound:up" >>
        /\ Pos(last.fx, "playClickSound:up") < Pos(last.fx, "onToggle")
        /\ Schedules(prev.fx) =
              IF Available(prev) THEN << "schedule:down" >> ELSE << >>
        /\ Schedules(last.fx) =
              IF Available(last) THEN << "schedule:up" >> ELSE << >>
        /\ Available(last) =>
              /\ Pos(last.fx, "schedule:up") < Pos(last.fx, "onToggle")
              /\ scheduled[Len(scheduled)].type = "up"
        /\ Available(prev) =>
              /\ Available(last)
              /\ Len(scheduled) >= 2
              /\ scheduled[Len(scheduled) - 1].type = "down"

C2_Witness ==
    /\ PressThenRelease
    /\ Available(prev)
    /\ toggles = 1
    /\ Len(scheduled) = 2

\* C3 as stated: a pointer-down followed by a pointer-leave leaves
\* isPressed false, invokes onToggle zero times and schedules exactly one
\* tone, the Press tone of the down; the leave schedules nothing and makes
\* no callback.
C3_AlwaysOneTone ==
    PressThenLeave =>
        /\ ~isPressed
        /\ Count(prev.fx, "onToggle") = 0
        /\ Count(last.fx, "onToggle") = 0
        /\ Schedules(prev.fx) = << "schedule:down" >>
        /\ Schedules(last.fx) = << >>
        /\ Calls(last.fx) = << >>

\* C3 amended: a pointer-down followed by a pointer-leave leaves isPressed
\* false, invokes onToggle zero times and makes exactly one playClickSound
\* call, 'down' by the down, which schedules the Press tone exactly when an
\* audio context exists or can be constructed; the leave makes no sound
\* call, schedules nothing and makes no callback.
C3_AbandonedPress ==
    PressThenLeave =>
        /\ ~isPressed
        /\ last.before /\ ~last.after
        /\ Count(prev.fx, "onToggle") = 0
        /\ Count(last.fx, "onToggle") = 0
        /\ Calls(prev.fx) = << "playClickSound:down" >>
        /\ Schedules(prev.fx) =
              IF Available(prev) THEN << "schedule:down" >> ELSE << >>
        /\ last.fx = << "setIsPressed:false" >>
        /\ last.tonesAfter = last.tonesBefore
        /\ last.nodesAfter = last.nodesBefore

C3_Witness ==
    /\ PressThenLeave
    /\ Available(prev)
    /\ Len(scheduled) = 1
    /\ toggles = 0
    /\ ~isPressed

\* C4: the number of onToggle invocations equals the number of
\* Pressed -> Released transitions made by pointer-up / touch-end; an event
\* invokes onToggle once if it is such a transition and not at all
\* otherwise, so never on pointer-down, touch-start or pointer-leave.
C4_ToggleOncePerCommit ==
    /\ toggles = commits
    /\ Count(last.fx, "onToggle") =
          IF last.ev \in UpEvents /\ last.before /\ ~last.after THEN 1 ELSE 0
    /\ last.ev \in DownEvents \cup LeaveEvents => ~Has(last.fx, "onToggle")

C4_Witness ==
    /\ toggles = 1
    /\ commits = 1
    /\ nEvents = 3
    /\ last.ev \in UpEvents /\ ~last.before

\* C5: at most one AudioContext is ever constructed; the reference is null
\* until then and the one context from then on, an event that finds a
\* context leaves the reference as it is, and every tone is scheduled on
\* that context.
C5_SingletonContext ==
    /\ constructed <= 1
    /\ audioContextRef = (IF constructed = 0 THEN NoCtx ELSE 1)
    /\ last.refBefore # NoCtx =>
          /\ last.refAfter = last.refBefore
          /\ ~Has(last.fx, "new AudioContext")
    /\ \A i \in 1..Len(scheduled) : scheduled[i].ctx = 1

C5_Witness ==
    /\ constructed = 1
    /\ attempts >= 3
    /\ Len(scheduled) >= 3

\* C6: no handler run raises an error; a playClickSound call made when no
\* context exists and the platform has no constructor constructs nothing,
\* creates no node and schedules nothing; and with or without audio every
\* event makes the same isPressed transition and the same onToggle
\* invocations: isPressed becomes true on a down and false otherwise, and
\* onToggle is invoked once by an up that finds isPressed true, else never.
C6_SilentWithoutAudio ==
    /\ ~last.threw
    /\ (Sounded(last) /\ ~Available(last)) =>
          /\ last.refAfter = NoCtx
          /\ ~Has(last.fx, "new AudioContext")
          /\ Schedules(last.fx) = << >>
          /\ last.nodesAfter = last.nodesBefore
          /\ last.tonesAfter = last.tonesBefore
    /\ last.ev # "none" =>
          /\ last.after = (last.ev \in DownEvents)
          /\ isPressed = last.after
          /\ Count(last.fx, "onToggle") =
                IF last.ev \in UpEvents /\ last.before THEN 1 ELSE 0

C6_Witness ==
    /\ PressThenRelease
    /\ ~Available(prev) /\ ~Available(last)
    /\ Sounded(last)
    /\ toggles = 1
    /\ nextNode = 0

\* C7: a playClickSound call that finds no context constructs one and
\* schedules its tone whenever the platform has a constructor at that
\* moment, whatever happened in earlier calls; if there is none the
\* reference stays null and nothing is scheduled.
C7_FailureNotCached ==
    (Sounded(last) /\ last.refBefore = NoCtx) =>
        IF last.ctor
        THEN /\ Has(last.fx, "new AudioContext")
             /\ last.refAfter # NoCtx
             /\ Len(Schedules(last.fx)) = 1
             /\ last.tonesAfter = last.tonesBefore + 1
        ELSE /\ last.refAfter = NoCtx
             /\ Schedules(last.fx) = << >>

C7_Witness ==
    /\ Sounded(prev) /\ prev.refAfter = NoCtx
    /\ attempts >= 2
    /\ Has(last.fx, "new AudioContext")
    /\ Len(scheduled) = 1

\* C8: a getAudioContext call issues a resume request exactly when the
\* context exists at that point (found, or constructed in that call) and
\* its state is 'suspended'; the call does not wait: the tone is scheduled
\* in the same handler run, after the request, on a context that is still
\* suspended.
C8_ResumeWithoutWaiting ==
    Sounded(last) =>
        LET seen == IF last.refBefore # NoCtx THEN last.stateBefore
                    ELSE last.stateAfter
        IN  /\ Has(last.fx, "resume") <=>
                  (last.refAfter # NoCtx /\ seen = "suspended")
            /\ Count(last.fx, "resume") <= 1
            /\ Has(last.fx, "resume") =>
                  /\ last.stateAfter = "suspended"
                  /\ Len(Schedules(last.fx)) = 1
                  /\ \A i, j \in 1..Len(last.fx) :
                        (last.fx[i] = "resume" /\
                         last.fx[j] \in {"schedule:down", "schedule:up"}) => i < j
                  /\ scheduled[last.tonesAfter].ctxState = "suspended"

C8_Witness ==
    /\ Has(last.fx, "new AudioContext")
    /\ Has(last.fx, "resume")
    /\ Len(Schedules(last.fx)) = 1
    /\ scheduled[Len(scheduled)].ctxState = "suspended"

\* C9: no context exists after mount; a context is constructed only by a
\* pointer-down / touch-start or by a committing pointer-up / touch-end, so
\* whenever one exists such an event has occurred; a re-render and a
\* pointer-leave construct nothing and leave the reference as it is.
C9_LazyContext ==
    /\ (constructed = 0 /\ audioContextRef = NoCtx)
    /\ [][ /\ constructed' > 0 => downs' + commits' > 0
           /\ audioContextRef' # NoCtx => constructed' > 0
           /\ constructed' # constructed =>
                 /\ nEvents' = nEvents + 1
                 /\ \/ last'.ev \in DownEvents
                    \/ last'.ev \in UpEvents /\ last'.before
           /\ renders' # renders =>
                 constructed' = constructed /\ audioContextRef' = audioContextRef
           /\ (nEvents' # nEvents /\ last'.ev \in LeaveEvents) =>
                 constructed' = constructed /\ audioContextRef' = audioContextRef
         ]_vars

C9_Witness ==
    /\ constructed = 1
    /\ renders >= 1
    /\ last.ev \in LeaveEvents /\ last.before

\* C10: every scheduled tone, Press or Release, has exactly two
\* oscillators, snap and body, each connected to a gain node of its own
\* that feeds the master gain; the snap oscillator stops at t + 30 ms,
\* strictly before the body oscillator, which stops at t + 100 ms; and a
\* playClickSound call with a context available schedules exactly one such
\* tone (five nodes).
C10_TwoOscillators ==
    /\ \A i \in 1..Len(scheduled) :
          LET g == scheduled[i]
              snap == g.oscillators[1]
              body == g.oscillators[2]
              master == g.gains[1]
              ids == {g.oscillators[k].id : k \in 1..Len(g.oscillators)}
                        \cup {g.gains[k].id : k \in 1..Len(g.gains)}
          IN  /\ g.type \in {"down", "up"}
              /\ Len(g.oscillators) = 2
              /\ snap.name = "snapOsc" /\ body.name = "bodyOsc"
              /\ Len(g.gains) = 3
              /\ Cardinality(ids) = 5
              /\ snap.out # body.out
              /\ g.gains[2].name = "snapGain" /\ snap.out = g.gains[2].id
              /\ g.gains[3].name = "bodyGain" /\ body.out = g.gains[3].id
              /\ g.gains[2].out = master.id /\ g.gains[3].out = master.id
              /\ master.out = Destination
              /\ snap.start = g.t /\ body.start = g.t
              /\ snap.stop = g.t + 30
              /\ body.stop = g.t + 100
              /\ snap.stop < body.stop
    /\ (Sounded(last) /\ Available(last)) =>
          /\ last.tonesAfter = last.tonesBefore + 1
          /\ last.nodesAfter = last.nodesBefore + 5

C10_Witness ==
    /\ Len(scheduled) >= 2
    /\ \E i, j \in 1..Len(scheduled) :
          scheduled[i].type = "down" /\ scheduled[j].type = "up"
    /\ currentTime > 0

\* what a scheduled tone g says of its oscillator k (1 = snap, 2 = body)
StartFrequency(g, k) == g.oscillators[k].frequency[1].value
RampWindow(g, k) == g.oscillators[k].frequency[2].at - g.t
PeakGain(g, k) == g.gains[k + 1].gain[1].value
DecayWindow(g, k) == g.gains[k + 1].gain[2].at - g.t
PressTones == {i \in 1..Len(scheduled) : scheduled[i].type = "down"}
ReleaseTones == {i \in 1..Len(scheduled) : scheduled[i].type = "up"}

\* C11 as stated: against any Press tone, a Release tone has for the snap
\* and for the body oscillator a lower starting frequency, a longer
\* frequency-ramp window, a longer gain-decay window and a different peak
\* gain.
C11_ReleaseLongerThroughout ==
    \A i \in PressTones, j \in ReleaseTones : \A k \in {1, 2} :
        /\ StartFrequency(scheduled[j], k) < StartFrequency(scheduled[i], k)
        /\ RampWindow(scheduled[j], k) > RampWindow(scheduled[i], k)
        /\ DecayWindow(scheduled[j], k) > DecayWindow(scheduled[i], k)
        /\ PeakGain(scheduled[j], k) # PeakGain(scheduled[i], k)

\* C11 amended: against any Press tone, a Release tone has for the snap and
\* for the body oscillator a lower starting frequency, a longer
\* frequency-ramp window and a different peak gain; its gain-decay window
\* is longer for the body oscillator and the same for the snap oscillator.
C11_ReleaseAgainstPress ==
    \A i \in PressTones, j \in ReleaseTones :
        /\ \A k \in {1, 2} :
              /\ StartFrequency(scheduled[j], k) < StartFrequency(scheduled[i], k)
              /\ RampWindow(scheduled[j], k) > RampWindow(scheduled[i], k)
              /\ PeakGain(scheduled[j], k) # PeakGain(scheduled[i], k)
        /\ DecayWindow(scheduled[j], 2) > DecayWindow(scheduled[i], 2)
        /\ DecayWindow(scheduled[j], 1) = DecayWindow(scheduled[i], 1)

C11_Witness ==
    /\ PressTones # {}
    /\ ReleaseTones # {}
    /\ variant = 2
    /\ last.ev \in UpEvents

NodeIds(g) ==
    {g.oscillators[k].id : k \in 1..Len(g.oscillators)}
        \cup {g.gains[k].id : k \in 1..Len(g.gains)}

\* C12: no step stops, reschedules or modifies the nodes of an earlier
\* playClickSound call: the scheduled graphs only grow, every graph already
\* scheduled stays exactly as it was, each graph has nodes of its own (its
\* master gain included), and every oscillator keeps the stop time of its
\* own call.
C12_NoCancellation ==
    [][ /\ Len(scheduled') >= Len(scheduled)
        /\ \A i \in 1..Len(scheduled) : scheduled'[i] = scheduled[i]
        /\ \A i, j \in 1..Len(scheduled') :
              i # j => NodeIds(scheduled'[i]) \cap NodeIds(scheduled'[j]) = {}
        /\ \A i \in 1..Len(scheduled') :
              /\ scheduled'[i].oscillators[1].stop = scheduled'[i].t + SnapStopMs
              /\ scheduled'[i].oscillators[2].stop = scheduled'[i].t + BodyStopMs
      ]_vars

\* two tones live at once: the later one starts before an oscillator of the
\* earlier one has reached its stop time
C12_Witness ==
    /\ Len(scheduled) >= 2
    /\ \E i, j \in 1..Len(scheduled) :
          /\ i < j
          /\ scheduled[j].t > scheduled[i].t
          /\ scheduled[j].t < scheduled[i].oscillators[2].stop
          /\ scheduled[i].oscillators[2].stop = scheduled[i].t + BodyStopMs

\* the world of a run that differs in the caller's isOn only
FlipOn(w) == [w EXCEPT !.on = ~w.on, !.nextOn = ~w.nextOn]
\* everything a handler run produces but the caller's isOn
Core(w) ==
    << w.nextPressed, w.ref, w.state, w.resumePending, w.constructed,
       w.attempts, w.nextNode, w.scheduled, w.fx, w.threw >>

\* C13: isOn does not influence the core.  From every reachable state and
\* from the state that differs from it in isOn only, every event gives the
\* same isPressed, the same audio context, the same scheduled tones (type
\* and parameters), the same calls (onToggle included) and flips isOn in
\* both or in neither; so two runs fed the same events and the same audio
\* availability stay equal but for isOn, step by step.
C13_IsOnIrrelevant ==
    \A ev \in Events, s \in NewContextStates :
        LET a == Dispatch(World, ev, s)
            b == Dispatch(FlipOn(World), ev, s)
        IN  /\ Core(a) = Core(b)
            /\ (a.nextOn = isOn) <=> (b.nextOn = ~isOn)

C13_Witness ==
    /\ ~isOn
    /\ toggles = 1
    /\ last.ev \in DownEvents
    /\ Len(scheduled) = 3
    /\ scheduled[3].type = "down"

\* the first two events of a run are a pointer-down and a pointer-up
FirstCycle == nEvents = 2 /\ PressThenRelease

\* C14 as stated: from Released with isOn = true, [pointer-down, pointer-up]
\* makes isPressed true and then false, calls onToggle once, schedules a
\* Press tone and then a Release tone and leaves isOn = false; after n
\* committed cycles isOn is true exactly when n is even.
C14_EndToEndWithTones ==
    /\ isOn <=> (commits % 2 = 0)
    /\ FirstCycle =>
          /\ prev.after /\ ~last.after /\ ~isPressed
          /\ toggles = 1
          /\ Schedules(prev.fx) = << "schedule:down" >>
          /\ Schedules(last.fx) = << "schedule:up" >>
          /\ Len(scheduled) = 2
          /\ ~isOn

\* C14 amended: from Released with isOn = true, [pointer-down, pointer-up]
\* makes isPressed true and then false, calls onToggle once, makes the
\* playClickSound calls 'down' and then 'up', each of which schedules its
\* tone exactly when an audio context exists or can be constructed, and
\* leaves isOn = false; every committed cycle invokes onToggle once and
\* flips isOn once, so after n committed cycles isOn is true exactly when
\* n is even.
C14_EndToEnd ==
    /\ isOn <=> (commits % 2 = 0)
    /\ toggles = commits
    /\ FirstCycle =>
          /\ prev.after /\ ~last.after /\ ~isPressed
          /\ toggles = 1
          /\ Calls(prev.fx) = << "playClickSound:down" >>
          /\ Calls(last.fx) = << "playClickSound:up" >>
          /\ Schedules(prev.fx) =
                IF Available(prev) THEN << "schedule:down" >> ELSE << >>
          /\ Schedules(last.fx) =
                IF Available(last) THEN << "schedule:up" >> ELSE << >>
          /\ Len(scheduled) = (IF Available(prev) THEN 2 ELSE 0)
          /\ ~isOn

C14_Witness ==
    /\ commits = 2
    /\ nEvents = 4
    /\ isOn
    /\ Len(scheduled) = 4

\* C15: a pointer-up, touch-end or pointer-leave delivered while isPressed
\* is false changes nothing: isPressed, the audio context reference and
\* state, the scheduled tones, the nodes, the onToggle count and isOn stay
\* as they were, and the handler makes no call other than the
\* preventDefault of a touchend.
C15_ReleasedUpOrLeaveIsNoOp ==
    [][ (nEvents' = nEvents + 1 /\ ~isPressed
            /\ last'.ev \in UpEvents \cup LeaveEvents) =>
           /\ isPressed' = isPressed
           /\ audioContextRef' = audioContextRef
           /\ ctxState' = ctxState
           /\ resumePending' = resumePending
           /\ constructed' = constructed
           /\ attempts' = attempts
           /\ nextNode' = nextNode
           /\ scheduled' = scheduled
           /\ toggles' = toggles
           /\ isOn' = isOn
           /\ \A k \in 1..Len(last'.fx) : last'.fx[k] = "preventDefault"
      ]_vars

\* a pointer-up after the press was aborted by a leave
C15_Witness ==
    /\ nEvents = 3
    /\ prev.ev \in LeaveEvents /\ prev.before
    /\ last.ev \in UpEvents /\ ~last.before
    /\ Len(scheduled) = 1
    /\ toggles = 0

\* C16: the Press tone fires only from Released: a pointer-down or
\* touch-start delivered while isPressed is true schedules no Press tone,
\* and the Press tones scheduled never outnumber the Released -> Pressed
\* transitions (they equal them when every press had a context available).
C16_PressToneOnlyFromReleased ==
    /\ (last.ev \in DownEvents /\ last.before) => Schedules(last.fx) = << >>
    /\ Cardinality(PressTones) <= presses

\* C17: Release tones scheduled <= onToggle invocations <= pointer-down /
\* touch-start events received, at every step; the first gap grows by one
\* exactly at a commit made with no audio context available and never
\* otherwise, so the two counts are equal while every commit had one; and
\* a handler run that schedules a Release tone schedules one and then
\* invokes onToggle, once.
C17_CounterOrder ==
    /\ (Cardinality(ReleaseTones) = 0 /\ toggles = 0 /\ downs = 0)
    /\ [][ /\ Cardinality(ReleaseTones') <= toggles'
           /\ toggles' <= downs'
           /\ toggles' - Cardinality(ReleaseTones') =
                 (toggles - Cardinality(ReleaseTones))
                 + (IF /\ nEvents' # nEvents
                       /\ Has(last'.fx, "onToggle")
                       /\ ~Available(last')
                    THEN 1 ELSE 0)
           /\ (nEvents' # nEvents /\ Has(last'.fx, "schedule:up")) =>
                 /\ Count(last'.fx, "schedule:up") = 1
                 /\ Count(last'.fx, "onToggle") = 1
                 /\ Pos(last'.fx, "schedule:up") < Pos(last'.fx, "onToggle")
         ]_vars

C17_Witness ==
    /\ downs = 2
    /\ toggles = 1
    /\ Cardinality(ReleaseTones) = 1
    /\ Cardinality(PressTones) = 2

\* C18: in every scheduled tone both oscillators start at the one instant t
\* of the call, at which every automation also begins; the stop offsets are
\* the same for every tone whatever its type; and for each oscillator the
\* end of its frequency ramp and the end of its gain decay lie strictly
\* after t and at or before its stop time.
C18_EnvelopeWithinStop ==
    /\ \A i \in 1..Len(scheduled) :
          LET g == scheduled[i]
          IN  \A k \in {1, 2} :
                 /\ g.oscillators[k].start = g.t
                 /\ g.oscillators[k].frequency[1].at = g.t
                 /\ g.gains[k + 1].gain[1].at = g.t
                 /\ g.t < g.oscillators[k].frequency[2].at
                 /\ g.oscillators[k].frequency[2].at <= g.oscillators[k].stop
                 /\ g.t < g.gains[k + 1].gain[2].at
                 /\ g.gains[k + 1].gain[2].at <= g.oscillators[k].stop
    /\ \A i, j \in 1..Len(scheduled) : \A k \in {1, 2} :
          scheduled[i].oscillators[k].stop - scheduled[i].t
             = scheduled[j].oscillators[k].stop - scheduled[j].t

C18_Witness ==
    /\ PressTones # {}
    /\ ReleaseTones # {}
    /\ variant = 1
    /\ scheduled[Len(scheduled)].t = TickMs
    /\ scheduled[1].t = 0

\* C19: a playClickSound call that finds the context closed treats it as
\* unavailable: it creates no node and schedules nothing, raises no error,
\* and the event still makes its isPressed transition and, for a
\* committing up, its onToggle invocation.
C19_ClosedIsUnavailable ==
    (Sounded(last) /\ last.refBefore # NoCtx /\ last.stateBefore = "closed") =>
        /\ Schedules(last.fx) = << >>
        /\ last.nodesAfter = last.nodesBefore
        /\ last.tonesAfter = last.tonesBefore
        /\ ~last.threw
        /\ last.after = (last.ev \in DownEvents)
        /\ Count(last.fx, "onToggle") = (IF last.ev \in UpEvents THEN 1 ELSE 0)

====
